---- MODULE Spec2Model ----
(***************************************************************************)
(* CronPilot: the run coordinator (TaskExecutor.execute_task), its two     *)
(* callers (the run_task endpoint and the scheduler's _execute_task_job),  *)
(* the isolated execution driver and scheduler shutdown.                   *)
(*                                                                         *)
(* Spec         - the run coordinator under concurrent callers.            *)
(* SpecDriver   - _execute_task_in_environment as a function of what the   *)
(*                child process did.                                       *)
(* SpecRegistry - registration, update and deletion of tasks and triggers. *)
(* SpecCron     - add_task_to_scheduler as a function of the expression.   *)
(* SpecEnv      - validate_environment as a function of the disk.          *)
(* SpecLogs     - runs, passing days and the retention sweep.              *)
(* SpecPool     - firings and manual runs of two tasks on the pool.        *)
(* SpecLogNames - create_task_logger's file and logger names.              *)
(* SpecLogSize  - the size of a run's log file while the run writes.       *)
(* SpecLoader   - load_task_module and its cache.                          *)
(* SpecFiring   - firings of tasks that are deactivated or deleted.        *)
(***************************************************************************)
EXTENDS Integers, Sequences, FiniteSets, TLC

\* ------------------------------------------------------------------ bounds
MaxRuns == 2        \* TaskRun rows created in one behaviour
MaxNoise == 1       \* lines a task prints itself before the driver's payload
MaxCrashOut == 3    \* lines on stdout of a child that died without a payload
MaxUpdates == 1     \* update_task_schedule requests in one behaviour
MaxTaskId == 2      \* Task rows ever created in one behaviour of SpecRegistry
MaxClock == 4       \* readings of the clock up to which days pass idly
MaxNameLen == 2     \* characters of a task name in SpecLogNames
MaxLogMb == 16      \* megabytes up to which a run's log file grows
MaxLoads == 3       \* calls of load_task_module in one behaviour
MaxCronLen == 9     \* characters of a cron expression

\* --------------------------------------------------------------- constants
TaskIds == {1, 2}               \* the ids a request or a job can name
Registered == {1}               \* the ids that have a Task row
Threads == {"w1", "w2"}         \* request threads / scheduler pool threads

None == "None"                  \* NULL of a text column, Python None
NoTime == 0 - 1                 \* NULL of a timestamp / float / int value
NoRun == Len(<<>>)              \* no TaskRun row (row ids start at 1)

\* models.py TaskStatus
PENDING == "pending"
RUNNING == "running"
SUCCESS == "success"
FAILED == "failed"
CANCELLED == "cancelled"
TaskStatus == {PENDING, RUNNING, SUCCESS, FAILED, CANCELLED}
Terminal == {SUCCESS, FAILED, CANCELLED}

VARIABLES
    tasks,      \* Task table: id -> row, for the ids that have one
    runs,       \* TaskRun table: row id (1..Len) -> row
    jobs,       \* the scheduler's job store: the jobs task_<id>
    sched,      \* the BackgroundScheduler: "running" | "stopping" | "stopped"
    now,        \* the clock: every reading is later than the one before
    th,         \* per thread: where it is in run_task / _execute_task_job
    ev,         \* what the step just taken answered, raised or logged
    updates,    \* update_task_schedule requests so far
    hooks,      \* per TaskRun row: the calls of send_task_notification for it
    drv,        \* SpecDriver: the last call of _execute_task_in_environment
    reg,        \* SpecCron: the last call of add_task_to_scheduler
    venv,       \* SpecEnv: the last call of validate_environment
    files,      \* the log directory: path of each *.log file -> its st_mtime
    lognames,   \* SpecLogNames: two calls of create_task_logger
    sizes,      \* the log directory: path of each *.log file -> its st_size
    loader      \* SpecLoader: loaded_modules and the calls of load_task_module

vars == <<tasks, runs, jobs, sched, now, th, ev, updates, hooks, drv, reg, venv, files, lognames, sizes, loader>>

\* ===================================================================
\* The isolated execution driver: task_executor.py
\* _execute_task_in_environment. stdout is a sequence of lines.
\* ===================================================================
RESULT_START == "TASK_RESULT_START"
RESULT_END == "TASK_RESULT_END"
ERROR_START == "TASK_ERROR_START"
ERROR_END == "TASK_ERROR_END"
Sentinels == {RESULT_START, RESULT_END, ERROR_START, ERROR_END}

ResultDoc == "{\"a\": 1}"                 \* json.dumps(result) of the task's result
ErrorDoc == "{\"status\": \"error\"}"     \* json.dumps of {status, message, traceback}
JsonDocs == {ResultDoc, ErrorDoc}
Noise == "noise"                          \* a line that is no JSON document
Lines == Sentinels \cup JsonDocs \cup {Noise}

\* What the task's code does inside the child process.
ChildBehaviours == {"returns", "raises", "unserializable", "exits", "hangs"}
ExitCodes == {0, 1}

RECURSIVE SeqsUpTo(_, _)
SeqsUpTo(S, n) ==
    IF n = 0 THEN {<<>>}
    ELSE LET shorter == SeqsUpTo(S, n - 1)
         IN shorter \cup {Append(s, x) : s \in shorter, x \in S}

\* The driver script: what is on the child's stdout, and how the child ends,
\* for a task that first prints `noise` and then behaves as `beh`.
DriverScript(beh, noise, code) ==
    CASE beh = "returns" ->
            [stdout |-> noise \o <<RESULT_START, ResultDoc, RESULT_END>>,
             returncode |-> 0, timeout |-> FALSE]
      [] beh = "raises" ->
            [stdout |-> noise \o <<ERROR_START, ErrorDoc, ERROR_END>>,
             returncode |-> 0, timeout |-> FALSE]
      [] beh = "unserializable" ->
            [stdout |-> noise \o <<RESULT_START, ERROR_START, ErrorDoc, ERROR_END>>,
             returncode |-> 0, timeout |-> FALSE]
      [] beh = "exits" ->
            [stdout |-> noise, returncode |-> code, timeout |-> FALSE]
      [] OTHER ->
            [stdout |-> noise, returncode |-> NoTime, timeout |-> TRUE]

\* "word" in output
Contains(out, word) == \E i \in 1..Len(out) : out[i] = word

\* output.find(word): the first line holding word; only used when it is there
Find(out, word) ==
    CHOOSE i \in 1..Len(out) :
        out[i] = word /\ \A j \in 1..(i - 1) : out[j] /= word

\* output[find(a) + len(a) : find(b)].strip()
Between(out, a, b) == SubSeq(out, Find(out, a) + 1, Find(out, b) - 1)

\* json.loads: one JSON document parses, anything else is a JSONDecodeError
JsonLoads(text) ==
    IF Len(text) = 1 /\ text[1] \in JsonDocs
    THEN [ok |-> TRUE, doc |-> text[1]]
    ELSE [ok |-> FALSE, doc |-> None]

\* The dictionaries the driver returns.
Dict(status, message, output, return_code, json) ==
    [status |-> status, message |-> message, output |-> output,
     return_code |-> return_code, json |-> json]

\* the dictionary a parsed document is
Parsed(doc) ==
    Dict(IF doc = ErrorDoc THEN "error" ELSE None, None, <<>>, NoTime, doc)

NoResult == Dict(None, None, <<>>, NoTime, None)

\* lines 251-291: the result parsed out of a finished child's output
ParseOutputMutant(output, returncode) ==
    IF Contains(output, RESULT_START) /\ Contains(output, RESULT_END)
    THEN LET r == JsonLoads(Between(output, RESULT_START, RESULT_END))
         IN IF r.ok THEN Parsed(r.doc)
            ELSE Dict("error", "Failed to parse result", <<>>, NoTime, None)
    ELSE IF Contains(output, ERROR_START) /\ Contains(output, ERROR_END)
    THEN LET r == JsonLoads(Between(output, ERROR_START, ERROR_END))
         IN IF r.ok THEN Parsed(r.doc)
            ELSE Dict("error", "Failed to parse error", <<>>, NoTime, None)
    ELSE IF returncode /= 0
    THEN Dict("error", "Task exited", <<>>, returncode, None)
    ELSE Dict("success", "Task executed (raw output)", output, returncode, None)

ParseOutput(output, returncode) ==
    IF Contains(output, RESULT_START) /\ Contains(output, RESULT_END)
    THEN LET r == JsonLoads(Between(output, RESULT_START, RESULT_END))
         IN IF r.ok THEN Parsed(r.doc)
            ELSE Dict("error", "Failed to parse result", <<>>, NoTime, None)
    ELSE IF Contains(output, ERROR_START) /\ Contains(output, ERROR_END)
    THEN LET r == JsonLoads(Between(output, ERROR_START, ERROR_END))
         IN IF r.ok THEN Parsed(r.doc)
            ELSE Dict("error", "Failed to parse error", <<>>, NoTime, None)
    ELSE Dict("success", "Task executed (raw output)", output, returncode, None)

\* lines 196-302: the whole driver, for a child that ran as `child`
ExecuteTaskInEnvironment(child) ==
    IF child.timeout
    THEN Dict("error", "timed out", <<>>, NoTime, None)
    ELSE ParseOutput(child.stdout, child.returncode)

\* ===================================================================
\* The store: models.py Task and TaskRun
\* ===================================================================
MANUAL == "manual"
HOURLY == "hourly"
DAILY == "daily"
WEEKLY == "weekly"
CUSTOM == "custom"

\* A Task row: the columns the run coordinator and the scheduler read.
\* environment_path and requirements_path are the columns
\* migrate_database.py adds to the tasks table.
\* schedule_config: NULL, or the JSON text of a dictionary that holds a
\* cron expression
NoConfig == <<>>

Config(cron_expression) == <<cron_expression>>

\* module_name names the file the task's code is in; schedule_config is the
\* stored schedule detail (NULL unless a request carried one).
TaskRow(active, env, req, stype) ==
    [module_name |-> "a", is_active |-> active, environment_path |-> env,
     requirements_path |-> req, schedule_type |-> stype,
     schedule_config |-> NoConfig]

\* (environment_path, requirements_path): none, an environment, an
\* environment with a requirements file
EnvironmentSpecs == {<<None, None>>, <<"env", None>>, <<"env", "req">>}

ScheduleTypes == {MANUAL, HOURLY}

TaskRows ==
    {TaskRow(a, e[1], e[2], s) :
        a \in BOOLEAN, e \in EnvironmentSpecs, s \in ScheduleTypes}

\* create_task_logger 40-42: the log file of a run is named after the task
\* and the second in which the logger is created
NoPath == <<>>
LogFilePath(task_id, timestamp) == <<task_id, timestamp>>

\* the log directory holds no file
NoFiles == [p \in {} |-> NoTime]

\* logging.FileHandler(log_file_path) (create_task_logger 52): the file is
\* opened for appending, and created if it is not there
Opened(dir, path, at) ==
    [p \in DOMAIN dir \cup {path} |-> IF p \in DOMAIN dir THEN dir[p] ELSE at]

\* a line is written through the handler: the file's modification time
\* moves; a file unlinked in the meantime does not come back
Written(dir, path, at) ==
    [p \in DOMAIN dir |-> IF p = path THEN at ELSE dir[p]]

\* A TaskRun row
TaskRun(task_id, status, started_at) ==
    [task_id |-> task_id, status |-> status, started_at |-> started_at,
     completed_at |-> NoTime, duration_seconds |-> NoTime,
     error_message |-> None, logs_file_path |-> NoPath]

RunIds == 1..Len(runs)

\* db.query(TaskRun).filter(task_id == t, status == RUNNING).first()
RunningRunMutant(t) == FALSE

RunningRunOfAnyTask(t) == \E r \in RunIds : runs[r].status = RUNNING

RunningRun(t) ==
    \E r \in RunIds : runs[r].task_id = t /\ runs[r].status = RUNNING

\* ===================================================================
\* The trigger registry: scheduler.py add_task_to_scheduler,
\* remove_task_from_scheduler, get_next_run_time. The job store is a set of
\* jobs, each with the id task_<id> and a trigger.
\* ===================================================================
\* A cron expression is a string, a sequence of characters.
CronChars == {"*", " "}

\* schedule_config.get('cron_expression', '0 0 * * *')
DefaultCron == <<"0", " ", "0", " ", "*", " ", "*", " ", "*">>

\* the characters of s before its first blank (s starts with a non-blank)
FirstField(s) ==
    LET n == CHOOSE k \in 1..Len(s) :
                /\ \A i \in 1..k : s[i] /= " "
                /\ (k = Len(s) \/ s[k + 1] = " ")
    IN SubSeq(s, 1, n)

\* str.split(): the fields of s, separated by runs of blanks
RECURSIVE SplitMutant(_)
SplitMutant(s) ==
    IF \A i \in 1..Len(s) : s[i] /= " " THEN <<s>>
    ELSE LET k == CHOOSE i \in 1..Len(s) :
                    s[i] = " " /\ \A j \in 1..(i - 1) : s[j] /= " "
         IN <<SubSeq(s, 1, k - 1)>> \o SplitMutant(SubSeq(s, k + 1, Len(s)))

RECURSIVE Split(_)
Split(s) ==
    IF s = <<>> THEN <<>>
    ELSE IF Head(s) = " " THEN Split(Tail(s))
    ELSE <<FirstField(s)>>
            \o Split(SubSeq(s, Len(FirstField(s)) + 1, Len(s)))

\* lines 89-90: the expression a custom task is scheduled with
CronExpression(task) ==
    IF task.schedule_config = NoConfig THEN DefaultCron
    ELSE task.schedule_config[1]

\* the trigger add_job is given: IntervalTrigger(hours=1) or a CronTrigger
Trigger(task) ==
    [type |-> task.schedule_type,
     fields |-> IF task.schedule_type = CUSTOM
                THEN Split(CronExpression(task)) ELSE <<>>]

Job(id, trigger) == [id |-> id, trigger |-> trigger]

\* scheduler.get_job(job_id)
HasJob(store, id) == \E j \in store : j.id = id

\* lines 121-131: the task's job, if there is one, is removed
RemoveTaskFromSchedulerMutant(store, id) == store

RemoveTaskFromScheduler(store, id) == {j \in store : j.id /= id}

\* scheduler.add_job(..., id=job_id, replace_existing=True)
AddJob(store, job) == {j \in store : j.id /= job.id} \cup {job}

\* lines 35-119. accepts: whether the trigger could be built from the
\* task's schedule_config (CronTrigger raises ValueError for a field it
\* cannot read). The result: the job store afterwards and the value
\* returned. A schedule type that is none of the five matches no branch.
AddTaskToSchedulerMutant(store, id, task, accepts) ==
    IF task.schedule_type = MANUAL
    THEN [jobs |-> store, ok |-> TRUE]
    ELSE [jobs |-> store \cup {Job(id, Trigger(task))}, ok |-> TRUE]

AddTaskToScheduler(store, id, task, accepts) ==
    LET cleared == RemoveTaskFromScheduler(store, id)
    IN IF task.schedule_type = MANUAL
       THEN [jobs |-> cleared, ok |-> TRUE]
       ELSE IF task.schedule_type = HOURLY
       THEN [jobs |-> AddJob(cleared, Job(id, Trigger(task))), ok |-> TRUE]
       ELSE IF task.schedule_type \in {DAILY, WEEKLY}
       THEN IF accepts
            THEN [jobs |-> AddJob(cleared, Job(id, Trigger(task))),
                  ok |-> TRUE]
            ELSE [jobs |-> cleared, ok |-> FALSE]
       ELSE IF task.schedule_type = CUSTOM
       THEN IF Len(Split(CronExpression(task))) /= 5
            THEN [jobs |-> cleared, ok |-> FALSE]
            ELSE IF accepts
            THEN [jobs |-> AddJob(cleared, Job(id, Trigger(task))),
                  ok |-> TRUE]
            ELSE [jobs |-> cleared, ok |-> FALSE]
       ELSE [jobs |-> cleared, ok |-> TRUE]

\* lines 166-176: get_next_run_time
GetNextRunTime(store, id) == IF HasJob(store, id) THEN "next" ELSE None

\* ===================================================================
\* Threads: a request thread in run_task, or a pool thread in
\* _execute_task_job, and where it is inside execute_task
\* ===================================================================
Idle == [pc |-> "idle", kind |-> None, task |-> NoRun, run |-> NoRun]

Calling(kind, t) == [pc |-> "create", kind |-> kind, task |-> t, run |-> NoRun]

\* What a step shows to the outside: the HTTP answer, the log line, the
\* exception. op: the operation; note: its outcome; for a finished
\* execution also the mode, what the task did, the child's exit code and the
\* result the driver handed back; for an exception that left execute_task,
\* what its caller made of it; for a call that returned, what the
\* notification hook did; for a finished execution also what
\* validate_environment said and how the pip install ended; for a sweep of
\* the log directory, the files it removed.
Event(op, t, run, mode, child, note) ==
    [op |-> op, task |-> t, run |-> run, mode |-> mode, child |-> child,
     note |-> note, code |-> NoTime, result |-> NoResult, caller |-> None,
     hook |-> None, environment |-> None, install |-> None,
     deleted |-> NoFiles]

NoEvent == Event(None, NoRun, NoRun, None, None, None)

\* rows that exist or are about to be inserted
Claimed == Len(runs) + Cardinality({w \in Threads : th[w].pc = "create"})

\* ---- run_task (api/tasks.py 233-254): up to the call of execute_task
RunTask(w, t) ==
    /\ th[w].pc = "idle"
    /\ sched /= "stopped"
    /\ (t \in DOMAIN tasks /\ ~RunningRun(t)) => Claimed < MaxRuns
    /\ IF t \notin DOMAIN tasks
       THEN /\ ev' = Event("run_task", t, NoRun, None, None, "404 not found")
            /\ th' = th
       ELSE IF RunningRun(t)
       THEN /\ ev' = Event("run_task", t, NoRun, None, None, "400 already running")
            /\ th' = th
       ELSE /\ ev' = NoEvent
            /\ th' = [th EXCEPT ![w] = Calling("manual", t)]
    /\ UNCHANGED <<tasks, runs, jobs, sched, now, drv, updates, hooks, reg, venv, files, lognames, sizes, loader>>

\* TaskScheduler.__init__ (scheduler.py 26-30): scheduler.max_workers of the
\* configuration is handed to BackgroundScheduler as a scheduler option. No
\* executor is configured with it, so firings run on the scheduler's default
\* pool, whose threads are Threads here.
SchedulerMaxWorkers == 1

\* a job function that does not look at is_active
ExecuteTaskJobBodyMutant(w, t) ==
    /\ (t \in DOMAIN tasks /\ ~RunningRun(t)) => Claimed < MaxRuns
    /\ IF t \notin DOMAIN tasks
       THEN /\ ev' = Event("job", t, NoRun, None, None, "not found")
            /\ th' = [th EXCEPT ![w] = Idle]
       ELSE IF RunningRun(t)
       THEN /\ ev' = Event("job", t, NoRun, None, None, "already running, skipping")
            /\ th' = [th EXCEPT ![w] = Idle]
       ELSE /\ ev' = NoEvent
            /\ th' = [th EXCEPT ![w] = Calling("sched", t)]
    /\ UNCHANGED <<tasks, runs, jobs, sched, now, drv, updates, hooks, reg, venv, files, lognames, sizes, loader>>

\* ---- _execute_task_job (scheduler.py 133-159): a firing of job task_<t>,
\* up to the call of execute_task. The scheduler runs one instance of a job
\* at a time and dispatches nothing once it is shut down.
\* ExecuteTaskJobBody: the function on pool thread w, from its first line on
ExecuteTaskJobBody(w, t) ==
    /\ (t \in DOMAIN tasks /\ tasks[t].is_active /\ ~RunningRun(t)) => Claimed < MaxRuns
    /\ IF t \notin DOMAIN tasks
       THEN /\ ev' = Event("job", t, NoRun, None, None, "not found")
            /\ th' = [th EXCEPT ![w] = Idle]
       ELSE IF ~tasks[t].is_active
       THEN /\ ev' = Event("job", t, NoRun, None, None, "not active, skipping")
            /\ th' = [th EXCEPT ![w] = Idle]
       ELSE IF RunningRun(t)
       THEN /\ ev' = Event("job", t, NoRun, None, None, "already running, skipping")
            /\ th' = [th EXCEPT ![w] = Idle]
       ELSE /\ ev' = NoEvent
            /\ th' = [th EXCEPT ![w] = Calling("sched", t)]
    /\ UNCHANGED <<tasks, runs, jobs, sched, now, drv, updates, hooks, reg, venv, files, lognames, sizes, loader>>

\* the trigger of job task_<t> is due and a pool thread runs the job
\* function at once
ExecuteTaskJob(w, t) ==
    /\ th[w].pc = "idle"
    /\ sched = "running"
    /\ HasJob(jobs, t)
    /\ \A v \in Threads : ~(th[v].kind = "sched" /\ th[v].task = t)
    /\ ExecuteTaskJobBody(w, t)

\* the same in two steps. SubmitJob: the trigger is due and the scheduler
\* hands _execute_task_job(t) to pool thread w; StartJob: the thread gets
\* to run and the function starts with the store as it is by then
Fired(t) == [pc |-> "fired", kind |-> "sched", task |-> t, run |-> NoRun]

SubmitJob(w, t) ==
    /\ th[w].pc = "idle"
    /\ sched = "running"
    /\ HasJob(jobs, t)
    /\ \A v \in Threads : ~(th[v].kind = "sched" /\ th[v].task = t)
    /\ th' = [th EXCEPT ![w] = Fired(t)]
    /\ ev' = NoEvent
    /\ UNCHANGED <<tasks, runs, jobs, sched, now, drv, updates, hooks, reg, venv, files, lognames, sizes, loader>>

StartJob(w) ==
    /\ th[w].pc = "fired"
    /\ ExecuteTaskJobBody(w, th[w].task)

\* ---- execute_task 50-58: the TaskRun row is inserted and committed
NewRunMutant(t) == TaskRun(t, PENDING, NoTime)

NewRun(t) == TaskRun(t, RUNNING, now)

CreateTaskRun(w) ==
    /\ th[w].pc = "create"
    /\ runs' = Append(runs, NewRun(th[w].task))
    /\ th' = [th EXCEPT ![w].pc = "logger", ![w].run = Len(runs) + 1]
    /\ ev' = Event("created", th[w].task, Len(runs) + 1, None, None, None)
    /\ hooks' = Append(hooks, 0)
    /\ now' = now + 1
    /\ UNCHANGED <<tasks, jobs, sched, drv, updates, reg, venv, files, lognames, sizes, loader>>

\* What the caller does with an exception out of execute_task: run_task
\* (api/tasks.py 264-268) answers 500; _execute_task_job (scheduler.py
\* 161-164) logs it, closes its session and returns to the scheduler.
CallerOutcomeMutant(kind) == IF kind = "manual" THEN "500" ELSE "raised"

CallerOutcome(kind) == IF kind = "manual" THEN "500" ELSE "logged"

\* execute_task 61: the logger is created right after the insert of the
\* row; on the scale of the clock both read the same instant, started_at
NewLogFile(r) == LogFilePath(runs[r].task_id, runs[r].started_at)

\* ---- execute_task 60-63: log_manager.create_task_logger, outside the try.
\* It opens the log file; when that raises (ok = FALSE) the exception leaves
\* execute_task: run_task turns it into a 500, _execute_task_job logs it.
CreateTaskLogger(w, ok) ==
    /\ th[w].pc = "logger"
    /\ IF ok
       THEN /\ runs' = [runs EXCEPT ![th[w].run].logs_file_path =
                                       NewLogFile(th[w].run)]
            /\ files' = Opened(files, NewLogFile(th[w].run),
                               runs[th[w].run].started_at)
            /\ th' = [th EXCEPT ![w].pc = "body"]
            /\ ev' = NoEvent
       ELSE /\ runs' = runs
            /\ files' = files
            /\ th' = [th EXCEPT ![w] = Idle]
            /\ ev' = [Event("execute_task", th[w].task, th[w].run, None,
                            None, "raised")
                        EXCEPT !.caller = CallerOutcome(th[w].kind)]
    /\ UNCHANGED <<tasks, jobs, sched, now, drv, updates, hooks, reg, venv, lognames, sizes, loader>>

\* ---- execute_task 68-96: environment setup. The set of ways it can end:
\* what validate_environment said (None: the task has no environment_path),
\* how the pip install of lines 86-95 ended (None: no requirements_path),
\* the interpreter to use (None: in-process mode) and the exception raised.
EnvironmentInvalid == "Environment validation failed"
SystemExit == "SystemExit"
InstallTimeout == "pip timed out after 300 seconds"

ResolveEnvironmentMutant(task) ==
    {[environment |-> None, install |-> None, python_executable |-> None,
      error |-> None]}

ResolveEnvironment(task) ==
    IF task.environment_path = None
    THEN {[environment |-> None, install |-> None,
           python_executable |-> None, error |-> None]}
    ELSE \* validate_environment says valid = False: line 80 raises
         {[environment |-> "invalid", install |-> None,
           python_executable |-> None, error |-> EnvironmentInvalid]}
         \cup
         (IF task.requirements_path = None
          THEN {[environment |-> "valid", install |-> None,
                 python_executable |-> "python", error |-> None]}
          ELSE \* pip ends with 0 or not: a log line either way
               {[environment |-> "valid", install |-> i,
                 python_executable |-> "python", error |-> None] :
                   i \in {"ok", "nonzero"}}
               \cup
               \* pip runs into its 300 s timeout: subprocess.run raises
               {[environment |-> "valid", install |-> "timeout",
                 python_executable |-> "python", error |-> InstallTimeout]})

\* ---- execute_task 97-108: the task is executed. The set of ways it can
\* end: error = None when a result came back, else str(e) of the exception.
Execute(python_executable) ==
    IF python_executable /= None
    THEN \* isolated: _execute_task_in_environment returns a dictionary
         \* whatever the child did; it raises nothing
         {[mode |-> "isolated", child |-> b, error |-> None,
           code |-> DriverScript(b, n, x).returncode,
           result |-> ExecuteTaskInEnvironment(DriverScript(b, n, x))] :
            b \in ChildBehaviours, n \in SeqsUpTo({Noise}, MaxNoise),
            x \in ExitCodes}
    ELSE \* in-process: load_task_module, then run_function(config)
         {[mode |-> "inprocess", child |-> "load_failed", code |-> NoTime,
           error |-> "Could not load task module", result |-> NoResult],
          [mode |-> "inprocess", child |-> "returns", code |-> NoTime,
           error |-> None, result |-> Parsed(ResultDoc)],
          [mode |-> "inprocess", child |-> "raises", code |-> NoTime,
           error |-> "boom", result |-> NoResult],
          [mode |-> "inprocess", child |-> "raises_empty", code |-> NoTime,
           error |-> "", result |-> NoResult],
          \* sys.exit() or KeyboardInterrupt in the task or at its import:
          \* not an Exception, so neither 44 nor 132 catches it
          [mode |-> "inprocess", child |-> "exits", code |-> NoTime,
           error |-> SystemExit, result |-> NoResult]}

\* execute_task 65-108 as a whole: environment setup, then execution, which
\* an exception of the setup skips
Outcome(e, o) ==
    [mode |-> o.mode, child |-> o.child, code |-> o.code, error |-> o.error,
     result |-> o.result, environment |-> e.environment,
     install |-> e.install]

NotExecuted(error) ==
    [mode |-> None, child |-> None, code |-> NoTime, error |-> error,
     result |-> NoResult]

BodyMutant(task) ==
    UNION {{Outcome(e, o) :
              o \in IF e.install = "timeout"
                    THEN {NotExecuted(e.error)}
                    ELSE Execute(e.python_executable)} :
           e \in ResolveEnvironment(task)}

Body(task) ==
    UNION {{Outcome(e, o) :
              o \in IF e.error /= None
                    THEN {NotExecuted(e.error)}
                    ELSE Execute(e.python_executable)} :
           e \in ResolveEnvironment(task)}

\* execute_task 110-122 (no exception) and 132-149 (exception e, error = str(e))
FinalizedMutant(row, error) ==
    IF error = None
    THEN [row EXCEPT !.status = SUCCESS, !.completed_at = now,
                     !.duration_seconds = now - row.started_at]
    ELSE [row EXCEPT !.status = FAILED, !.completed_at = now,
                     !.error_message = error]

Finalized(row, error) ==
    IF error = None
    THEN [row EXCEPT !.status = SUCCESS, !.completed_at = now,
                     !.duration_seconds = now - row.started_at]
    ELSE [row EXCEPT !.status = FAILED, !.completed_at = now,
                     !.error_message = error,
                     !.duration_seconds =
                        IF row.started_at /= NoTime
                        THEN now - row.started_at ELSE NoTime]

\* ---- execute_task 65-122 / 132-149: the task runs and the row is finalized
RunAndFinalize(w) ==
    /\ th[w].pc = "body"
    /\ \E o \in Body(tasks[th[w].task]) :
        IF o.error = SystemExit
        THEN \* "except Exception" (132) lets it pass, and so do run_task
             \* (api/tasks.py 262-268) and _execute_task_job (scheduler.py
             \* 161): the row stays as it was inserted
             /\ runs' = runs
             /\ th' = [th EXCEPT ![w] = Idle]
             /\ ev' = [Event("execute_task", th[w].task, th[w].run, o.mode,
                             o.child, "raised")
                         EXCEPT !.caller = "uncaught"]
        ELSE /\ runs' = [runs EXCEPT ![th[w].run] = Finalized(@, o.error)]
             /\ th' = [th EXCEPT ![w].pc = "notify"]
             /\ ev' = [Event("finalized", th[w].task, th[w].run, o.mode,
                             o.child,
                             IF o.error = None THEN "result" ELSE "exception")
                         EXCEPT !.code = o.code, !.result = o.result,
                                !.environment = o.environment,
                                !.install = o.install]
    /\ now' = now + 1
    /\ files' = Written(files, runs[th[w].run].logs_file_path, now)
    /\ UNCHANGED <<tasks, jobs, sched, drv, updates, hooks, reg, venv, lognames, sizes, loader>>

\* what email_service.send_task_notification can do
Notifications == {"sent", "not sent", "raises"}

\* execute_task 124-128 / 151-155: a notification that raises is caught and
\* logged; the row is what it was
NotifiedMutant(row, n) ==
    IF n = "raises"
    THEN [row EXCEPT !.status = FAILED, !.error_message = "smtp"]
    ELSE row

Notified(row, n) == row

\* execute_task 125-130 / 152-157: how the call ends after the hook: the
\* except around it lets nothing out
AfterNotificationMutant(n) == IF n = "raises" THEN "raised" ELSE "returned"

AfterNotification(n) == "returned"

\* ---- execute_task 124-130 / 151-157: the notification hook, then
\* execute_task returns the row to run_task or _execute_task_job
NotifyAndReturn(w, n) ==
    /\ th[w].pc = "notify"
    /\ runs' = [runs EXCEPT ![th[w].run] = Notified(@, n)]
    /\ hooks' = [hooks EXCEPT ![th[w].run] = @ + 1]
    /\ th' = [th EXCEPT ![w] = Idle]
    /\ ev' = [Event("execute_task", th[w].task, th[w].run, None, None,
                    AfterNotification(n))
                EXCEPT !.hook = n]
    /\ UNCHANGED <<tasks, jobs, sched, now, drv, updates, reg, venv, files, lognames, sizes, loader>>

\* ---- update_task_schedule (api/tasks.py 271-326). schedule_data is the
\* request's dictionary: a key it does not carry leaves the column as it is.
Get(schedule_data, key, default) ==
    IF key \in DOMAIN schedule_data THEN schedule_data[key] ELSE default

\* the requests: one that sets the active flag, one that sets the schedule
\* type, one that sets the environment
ScheduleData ==
    {[is_active |-> a] : a \in BOOLEAN}
    \cup {[schedule_type |-> s] : s \in ScheduleTypes}
    \cup {[environment_path |-> e[1], requirements_path |-> e[2]] :
            e \in EnvironmentSpecs}

\* lines 287-293: the row after the assignments
Updated(task, schedule_data) ==
    [task EXCEPT
        !.schedule_type = Get(schedule_data, "schedule_type", @),
        !.schedule_config = Get(schedule_data, "schedule_config", NoConfig),
        !.is_active = Get(schedule_data, "is_active", @),
        !.environment_path = Get(schedule_data, "environment_path", @),
        !.requirements_path = Get(schedule_data, "requirements_path", @)]

\* An environment that does not validate (valid = FALSE) answers 400 and
\* nothing is committed. After the commit the job of a manual task is
\* removed, the job of any other task is replaced (add_task_to_scheduler
\* does not look at is_active, and what it returns is not looked at). No
\* TaskRun row is read or written.
UpdateTaskSchedule(t, schedule_data, valid, accepts) ==
    /\ sched /= "stopped"
    /\ updates < MaxUpdates
    /\ updates' = updates + 1
    /\ IF t \notin DOMAIN tasks
       THEN /\ ev' = Event("update", t, NoRun, None, None, "404 not found")
            /\ UNCHANGED <<tasks, jobs>>
       ELSE LET row == Updated(tasks[t], schedule_data)
            IN IF row.environment_path /= None /\ ~valid
               THEN /\ ev' = Event("update", t, NoRun, None, None,
                                   "400 invalid environment")
                    /\ UNCHANGED <<tasks, jobs>>
               ELSE /\ ev' = Event("update", t, NoRun, None,
                                   IF HasJob(jobs, t) THEN "job removed"
                                   ELSE None,
                                   "200 updated")
                    /\ tasks' = [tasks EXCEPT ![t] = row]
                    /\ jobs' = IF row.schedule_type = MANUAL
                               THEN RemoveTaskFromScheduler(jobs, t)
                               ELSE AddTaskToScheduler(jobs, t, row,
                                                       accepts).jobs
    /\ UNCHANGED <<runs, sched, now, th, drv, hooks, reg, venv, files, lognames, sizes, loader>>

\* ---- main.py shutdown_event -> TaskScheduler.shutdown (scheduler.py
\* 249-255) -> BackgroundScheduler.shutdown(): no new firing is dispatched,
\* and the call returns once the pool's threads have finished their jobs.
\* No TaskRun row is touched.
ShutdownBegin ==
    /\ sched = "running"
    /\ sched' = "stopping"
    /\ ev' = NoEvent
    /\ UNCHANGED <<tasks, runs, jobs, now, th, drv, updates, hooks, reg, venv, files, lognames, sizes, loader>>

ShutdownEnd ==
    /\ sched = "stopping"
    /\ \A w \in Threads : th[w].kind /= "sched"
    /\ sched' = "stopped"
    /\ ev' = Event("shutdown", NoRun, NoRun, None, None, "returned")
    /\ UNCHANGED <<tasks, runs, jobs, now, th, drv, updates, hooks, reg, venv, files, lognames, sizes, loader>>

\* ===================================================================
\* SpecRegistry: tasks enter and leave the store and the scheduler:
\* register_task, startup auto-discovery, update_task_schedule,
\* delete_task.
\* ===================================================================
\* The tasks directory: what each file's module holds under the name
\* run_task. "raises": the module cannot be imported.
Files ==
    [a |-> "function", b |-> "not callable", c |-> "missing", d |-> "raises"]

Modules == DOMAIN Files

\* task_executor.py 304-339: validate_task_file(file_path).valid
ValidateTaskFile(module) == Files[module] = "function"

\* task_executor.py 159-192: the modules discover_tasks lists: those that
\* load and have an attribute run_task
DiscoverTasks == {m \in Modules : Files[m] \in {"function", "not callable"}}

\* the id the store gives the next Task row
NewId == IF DOMAIN tasks = {} THEN 1
         ELSE (CHOOSE t \in DOMAIN tasks : \A u \in DOMAIN tasks : u <= t) + 1

\* the schedule specifications a request can carry
OtherType == "monthly"

RequestTypes == {MANUAL, HOURLY, DAILY, WEEKLY, CUSTOM, OtherType}

FiveFields == <<"*", " ", "*", " ", "*", " ", "*", " ", "*">>

FourFields == <<"*", " ", "*", " ", "*", " ", "*">>

RequestConfigs == {NoConfig, Config(FiveFields), Config(FourFields)}

ExistingNames == {tasks[t].module_name : t \in DOMAIN tasks}

\* the row register_task creates (the task is named after its module)
NewTask(module, stype, config) ==
    [TaskRow(TRUE, None, None, stype) EXCEPT !.module_name = module,
                                             !.schedule_config = config]

\* ---- register_task (api/tasks.py 172-223)
RegisterTask(module, stype, config, accepts) ==
    /\ sched /= "stopped"
    /\ IF ~ValidateTaskFile(module)
       THEN /\ ev' = Event("register", NoRun, NoRun, None, None,
                           "400 invalid task file")
            /\ UNCHANGED <<tasks, jobs>>
       ELSE IF module \in ExistingNames
       THEN /\ ev' = Event("register", NoRun, NoRun, None, None,
                           "400 already exists")
            /\ UNCHANGED <<tasks, jobs>>
       ELSE /\ NewId <= MaxTaskId
            /\ ev' = Event("register", NewId, NoRun, None, None,
                           "200 registered")
            /\ tasks' = [t \in DOMAIN tasks \cup {NewId} |->
                            IF t = NewId THEN NewTask(module, stype, config)
                            ELSE tasks[t]]
            /\ jobs' = IF stype /= MANUAL
                       THEN AddTaskToScheduler(jobs, NewId,
                                NewTask(module, stype, config), accepts).jobs
                       ELSE jobs
    /\ UNCHANGED <<runs, sched, now, th, updates, drv, hooks, reg, venv, files, lognames, sizes, loader>>

\* the orders in which os.listdir can yield the modules of S
Orders(S) ==
    {q \in [1..Cardinality(S) -> S] : {q[i] : i \in DOMAIN q} = S}

\* ---- startup_event (main.py 56-98): every discovered module whose name
\* no Task has yet becomes a manual, active Task
StartupEvent ==
    LET new == DiscoverTasks \ ExistingNames
    IN /\ sched /= "stopped"
       /\ NewId + Cardinality(new) - 1 <= MaxTaskId
       /\ \E q \in Orders(new) :
             tasks' = [t \in DOMAIN tasks
                               \cup {NewId + i - 1 : i \in DOMAIN q} |->
                          IF t \in DOMAIN tasks THEN tasks[t]
                          ELSE NewTask(q[t - NewId + 1], MANUAL, NoConfig)]
       /\ ev' = Event("startup", NoRun, NoRun, None, None, "started")
       /\ UNCHANGED <<runs, jobs, sched, now, th, updates, drv, hooks, reg, venv, files, lognames, sizes, loader>>

\* ---- delete_task (api/tasks.py 373-402): the job is removed, then the
\* Task row is deleted and with it its TaskRun rows
KeptRuns(t) == {r \in RunIds : runs[r].task_id /= t}

\* the i-th smallest element of S
Nth(S, i) == CHOOSE r \in S : Cardinality({q \in S : q < r}) = i - 1

DeleteTask(t) ==
    /\ sched /= "stopped"
    /\ IF t \notin DOMAIN tasks
       THEN /\ ev' = Event("delete", t, NoRun, None, None, "404 not found")
            /\ UNCHANGED <<tasks, jobs, runs, hooks>>
       ELSE /\ ev' = Event("delete", t, NoRun, None, None, "200 deleted")
            /\ jobs' = RemoveTaskFromScheduler(jobs, t)
            /\ tasks' = [u \in DOMAIN tasks \ {t} |-> tasks[u]]
            /\ runs' = [i \in 1..Cardinality(KeptRuns(t)) |->
                            runs[Nth(KeptRuns(t), i)]]
            /\ hooks' = [i \in 1..Cardinality(KeptRuns(t)) |->
                            hooks[Nth(KeptRuns(t), i)]]
    /\ UNCHANGED <<sched, now, th, updates, drv, reg, venv, files, lognames, sizes, loader>>

\* ---- add_task_to_scheduler(task) for a stored task, as register_task and
\* update_task_schedule call it; what it returns is the step's outcome
AddTaskToSchedulerCall(t, accepts) ==
    /\ sched /= "stopped"
    /\ t \in DOMAIN tasks
    /\ jobs' = AddTaskToScheduler(jobs, t, tasks[t], accepts).jobs
    /\ ev' = Event("add_task_to_scheduler", t, NoRun, None, None,
                   IF AddTaskToScheduler(jobs, t, tasks[t], accepts).ok
                   THEN "True" ELSE "False")
    /\ UNCHANGED <<tasks, runs, sched, now, th, updates, drv, hooks, reg, venv, files, lognames, sizes, loader>>

\* the requests of SpecRegistry: a schedule type with or without a
\* schedule_config
ScheduleRequests ==
    {[schedule_type |-> s] : s \in RequestTypes}
    \cup {[schedule_type |-> s, schedule_config |-> c] :
            s \in RequestTypes, c \in RequestConfigs \ {NoConfig}}

\* ===================================================================
\* SpecDriver: _execute_task_in_environment on its own, one call of it per
\* behaviour (a call keeps nothing from the call before)
\* ===================================================================
NoCall == [stdout |-> <<>>, returncode |-> NoTime, timeout |-> FALSE,
           called |-> FALSE, result |-> NoResult]

Called(child) ==
    [stdout |-> child.stdout, returncode |-> child.returncode,
     timeout |-> child.timeout, called |-> TRUE,
     result |-> ExecuteTaskInEnvironment(child)]

\* the child runs the generated driver script around the task
DriverRunsScript(beh, noise, code) ==
    /\ ~drv.called
    /\ drv' = Called(DriverScript(beh, noise, code))
    /\ UNCHANGED <<tasks, runs, jobs, sched, now, th, ev, updates, hooks, reg, venv, files, lognames, sizes, loader>>

\* the child ends with any output at all (killed, os._exit, a task that
\* prints the sentinel words itself)
DriverRunsChild(out, code) ==
    /\ ~drv.called
    /\ drv' = Called([stdout |-> out, returncode |-> code, timeout |-> FALSE])
    /\ UNCHANGED <<tasks, runs, jobs, sched, now, th, ev, updates, hooks, reg, venv, files, lognames, sizes, loader>>

\* ===================================================================
\* SpecCron: add_task_to_scheduler for a custom task, one call of it per
\* behaviour, as a function of the cron expression
\* ===================================================================
NoRegistration ==
    [called |-> FALSE, expression |-> <<>>, before |-> {},
     result |-> [jobs |-> {}, ok |-> FALSE]]

\* the job store before the call: another task's job, and with had = TRUE
\* an hourly job of the task itself
StoreBefore(had) ==
    {Job(2, Trigger(NewTask("b", HOURLY, NoConfig)))}
    \cup (IF had THEN {Job(1, Trigger(NewTask("a", HOURLY, NoConfig)))}
          ELSE {})

RegisterSchedule(expression, had, accepts) ==
    /\ ~reg.called
    /\ reg' = [called |-> TRUE, expression |-> expression,
               before |-> StoreBefore(had),
               result |-> AddTaskToScheduler(StoreBefore(had), 1,
                             NewTask("a", CUSTOM, Config(expression)),
                             accepts)]
    /\ UNCHANGED <<tasks, runs, jobs, sched, now, th, ev, updates, hooks, drv,
                   venv, files, lognames, sizes, loader>>

\* ===================================================================
\* SpecEnv: environment_manager.py validate_environment, one call of it per
\* behaviour, as a function of what is on disk and of what the two child
\* processes (probe, pip install) do
\* ===================================================================
\* the files _is_valid_venv and _get_python_executable look for
BinPython == "bin/python"
BinActivate == "bin/activate"
ScriptsPython == "Scripts/python.exe"
ScriptsActivate == "Scripts/activate.bat"
Indicators == {BinPython, BinActivate, ScriptsPython, ScriptsActivate}

\* _is_valid_venv (225-239)
IsValidVenv(fs) == \E i \in Indicators : i \in fs

\* _get_python_executable (241-258)
GetPythonExecutableMutant(fs) ==
    IF BinPython \in fs \/ BinActivate \in fs THEN BinPython
    ELSE IF ScriptsPython \in fs THEN ScriptsPython
    ELSE None

GetPythonExecutable(fs) ==
    IF BinPython \in fs THEN BinPython
    ELSE IF ScriptsPython \in fs THEN ScriptsPython
    ELSE None

\* how the probe `python -c ...` (287-297) can end; "oserror": the file is
\* there and cannot be started, subprocess.run raises
Probes == {"ok", "nonzero", "timeout", "oserror"}

\* requirements_path: not given, a file that is not there, a file
Manifests == {None, "missing", "present"}

\* how `pip install -r` (308-316) can end
Installs == {"ok", "nonzero", "timeout"}

\* what a call meets: whether env_path exists, the indicator files under
\* it, and the outcomes just listed
Disks ==
    {d \in [exists : BOOLEAN, fs : SUBSET Indicators, probe : Probes,
            requirements : Manifests, install : Installs] :
        d.fs /= {} => d.exists}

Invalid(error) ==
    [valid |-> FALSE, python_executable |-> None, errors |-> <<error>>,
     warnings |-> <<>>]

Valid(python_exec, warnings) ==
    [valid |-> TRUE, python_executable |-> python_exec, errors |-> <<>>,
     warnings |-> warnings]

\* validate_environment (260-328)
ValidateEnvironment(d) ==
    IF ~d.exists THEN Invalid("Environment path does not exist")
    ELSE IF ~IsValidVenv(d.fs)
    THEN Invalid("Path is not a valid virtual environment")
    ELSE IF GetPythonExecutable(d.fs) = None
    THEN Invalid("Could not find Python executable in environment")
    ELSE IF d.probe = "nonzero" THEN Invalid("Python execution failed")
    ELSE IF d.probe = "timeout" THEN Invalid("Python execution timed out")
    ELSE IF d.probe = "oserror" THEN Invalid("Permission denied")
    ELSE IF d.requirements = None
    THEN Valid(GetPythonExecutable(d.fs), <<>>)
    ELSE IF d.requirements = "missing"
    THEN Invalid("Requirements file does not exist")
    ELSE IF d.install = "nonzero"
    THEN Valid(GetPythonExecutable(d.fs),
               <<"Requirements installation had issues">>)
    ELSE IF d.install = "timeout"
    THEN Valid(GetPythonExecutable(d.fs),
               <<"Requirements installation timed out">>)
    ELSE Valid(GetPythonExecutable(d.fs), <<>>)

NoValidation ==
    [called |-> FALSE,
     disk |-> [exists |-> FALSE, fs |-> {}, probe |-> "ok",
               requirements |-> None, install |-> "ok"],
     result |-> Invalid(None)]

ValidateEnvironmentCall(d) ==
    /\ ~venv.called
    /\ venv' = [called |-> TRUE, disk |-> d, result |-> ValidateEnvironment(d)]
    /\ UNCHANGED <<tasks, runs, jobs, sched, now, th, ev, updates, hooks, drv,
                   reg, files, lognames, sizes, loader>>

\* ===================================================================
\* SpecLogs: log_manager.py, the retention sweep beside the runs of one
\* scheduled task. The clock counts days.
\* ===================================================================
\* LogManager.__init__ 14: logging.retention_days
RetentionDays == 2

\* a day passes
Tick ==
    /\ now < MaxClock
    /\ now' = now + 1
    /\ ev' = NoEvent
    /\ UNCHANGED <<tasks, runs, jobs, sched, th, updates, hooks, drv, reg, venv,
                   files, lognames, sizes, loader>>

\* cleanup_old_logs 113-123: the files the sweep unlinks. failing: the
\* files whose stat() or unlink() raises, which line 124 passes over
OldLogsMutant(dir, failing) ==
    {p \in DOMAIN dir : p \notin failing /\ dir[p] <= now - RetentionDays}

OldLogs(dir, failing) ==
    {p \in DOMAIN dir : p \notin failing /\ dir[p] < now - RetentionDays}

\* ---- cleanup_old_logs (110-131), called by the cleanup thread of
\* _setup_cleanup_thread (23-36) every 24 hours, for as long as the process
\* lives. The sweep looks at each file's modification time and at nothing
\* else.
CleanupOldLogs(failing) ==
    /\ files' = [p \in DOMAIN files \ OldLogs(files, failing) |-> files[p]]
    /\ ev' = [Event("cleanup_old_logs", NoRun, NoRun, None, None,
                    IF OldLogs(files, failing) /= {} THEN "Cleaned up"
                    ELSE None)
                EXCEPT !.deleted = [p \in OldLogs(files, failing) |-> files[p]]]
    /\ UNCHANGED <<tasks, runs, jobs, sched, now, th, updates, hooks, drv, reg,
                   venv, lognames, sizes, loader>>

\* ===================================================================
\* SpecLogNames: log_manager.py create_task_logger, the names it gives to
\* the log file and to the logger, for two calls per behaviour. Strings are
\* sequences of characters.
\* ===================================================================
DecimalDigits == <<"0", "1", "2", "3", "4", "5", "6", "7", "8", "9">>

\* str(task_id) as the f-string writes it, for ids below 100
Str(n) ==
    IF n < 10 THEN <<DecimalDigits[n + 1]>>
    ELSE <<DecimalDigits[(n \div 10) + 1], DecimalDigits[(n % 10) + 1]>>

\* the task ids, names and timestamps the two calls are made with; a name
\* is any text, a timestamp is strftime("%Y%m%d_%H%M%S"): digits around an
\* underscore
LoggerIds == {1, 2, 12, 21}
NameChars == {"1", "2", "_"}
Timestamps == {<<"1", "_", "1">>, <<"1", "_", "2">>, <<"2", "_", "1">>}

\* line 41: log_filename = f"task_{task_id}_{task_name}_{timestamp}.log"
LogFileNameMutant(task_id, task_name, timestamp) ==
    <<"task_">> \o Str(task_id) \o task_name \o <<"_">> \o timestamp
                \o <<".log">>

LogFileName(task_id, task_name, timestamp) ==
    <<"task_">> \o Str(task_id) \o <<"_">> \o task_name \o <<"_">>
                \o timestamp \o <<".log">>

\* line 45: logging.getLogger(f"task_{task_id}_{timestamp}")
LoggerName(task_id, timestamp) ==
    <<"task_">> \o Str(task_id) \o <<"_">> \o timestamp

\* what one call of create_task_logger returns and which logger it set up
Logger(task_id, task_name, timestamp) ==
    [task_id |-> task_id, task_name |-> task_name,
     path |-> LogFileName(task_id, task_name, timestamp),
     logger |-> LoggerName(task_id, timestamp)]

NoLoggers ==
    [called |-> FALSE, a |-> Logger(1, <<>>, <<>>), b |-> Logger(1, <<>>, <<>>)]

\* create_task_logger (38-64) for a run of one task and for a run of
\* another, at any two times
CreateTaskLoggers(ida, namea, tsa, idb, nameb, tsb) ==
    /\ ~lognames.called
    /\ lognames' = [called |-> TRUE, a |-> Logger(ida, namea, tsa),
                    b |-> Logger(idb, nameb, tsb)]
    /\ UNCHANGED <<tasks, runs, jobs, sched, now, th, ev, updates, hooks, drv,
                   reg, venv, files, sizes, loader>>

\* ===================================================================
\* SpecLogSize: the size of a run's log file while the run writes to it
\* ===================================================================
\* LogManager.__init__ 15, config.py 39: logging.max_log_size_mb
max_log_size_mb == 10

\* no file has been written to
NoSizes == [p \in {} |-> 0]

\* os.stat(path).st_size in megabytes; a file nobody wrote to is empty
SizeOf(path) == IF path \in DOMAIN sizes THEN sizes[path] ELSE 0

\* megabytes one record adds: "Task result: {result}" (120), the stderr of
\* the child (256), a stack trace (138) are as long as the task makes them;
\* the fixed lines of execute_task are too short to count on this scale
RecordMb == {4, 8}

\* rotate_log_if_needed 160-178, as a function of the directory: a file
\* over the threshold is renamed to <path>.<timestamp>, nothing is created
\* at path. No line of the program calls it.
Backup(path, timestamp) == <<path, timestamp>>

RotateLogIfNeeded(dir, path, timestamp) ==
    IF path \in DOMAIN dir /\ dir[path] > max_log_size_mb
    THEN [p \in (DOMAIN dir \ {path}) \cup {Backup(path, timestamp)} |->
             IF p = Backup(path, timestamp) THEN dir[path] ELSE dir[p]]
    ELSE dir

\* ---- task_logger.info / warning / error inside execute_task (66-138,
\* 241-283): the FileHandler that create_task_logger (52-61) attached
\* appends the record to the file it opened; the handler looks at no size
\* and execute_task calls nothing between two records
LogRecord(w, mb) ==
    /\ th[w].pc = "body"
    /\ SizeOf(runs[th[w].run].logs_file_path) + mb <= MaxLogMb
    /\ sizes' = [p \in DOMAIN sizes \cup {runs[th[w].run].logs_file_path} |->
                    IF p = runs[th[w].run].logs_file_path
                    THEN SizeOf(p) + mb ELSE sizes[p]]
    /\ files' = Written(files, runs[th[w].run].logs_file_path, now)
    /\ ev' = [Event("log", th[w].task, th[w].run, None, None, "appended")
                EXCEPT !.code = SizeOf(runs[th[w].run].logs_file_path)]
    /\ UNCHANGED <<tasks, runs, jobs, sched, now, th, updates, hooks, drv,
                   reg, venv, lognames, loader>>

\* ===================================================================
\* SpecLoader: load_task_module and its cache loaded_modules
\* ===================================================================
\* The task files on disk, <<directory, file name without .py>>, and what
\* importing each does: "function": defines run_task; "missing": defines no
\* run_task; "raises": its top-level code raises; "absent": there is no
\* such file any more
Sources ==
    (<<"tasks", "job">> :> "function") @@ (<<"other", "job">> :> "function")
    @@ (<<"tasks", "report">> :> "function")
    @@ (<<"tasks", "helper">> :> "missing")
    @@ (<<"tasks", "broken">> :> "raises")
    @@ (<<"tasks", "gone">> :> "absent")
    @@ (<<"old", "report">> :> "absent")

FilePaths == DOMAIN Sources

\* validate_task_file 313-314, discover_tasks 169-170: the module
\* identifier of a task is the base name of its file without ".py"
ModuleName(file_path) == file_path[2]

\* the run_task function object that executing the file at file_path defines
RunTaskOf(file_path) == [run_task |-> file_path]

\* the None that load_task_module returns on line 46
NotLoaded == [run_task |-> <<>>]

\* TaskExecutor.__init__ 19: loaded_modules = {}, and no call yet
NoLoader == [loaded_modules |-> [m \in {} |-> NotLoaded], calls |-> <<>>]

\* load_task_module 21-46 for a task with this file_path and the module
\* identifier ModuleName(file_path): what it returns, whether it executed
\* the file (exec_module, 35), and the cache afterwards
LoadTaskModuleMutant(cache, file_path) ==
    IF Sources[file_path] = "function"
    THEN [returned |-> RunTaskOf(file_path), executed |-> TRUE,
          cache |-> [m \in DOMAIN cache \cup {ModuleName(file_path)} |->
                       IF m = ModuleName(file_path)
                       THEN RunTaskOf(file_path) ELSE cache[m]]]
    ELSE [returned |-> NotLoaded, executed |-> Sources[file_path] /= "absent",
          cache |-> cache]

LoadTaskModule(cache, file_path) ==
    IF ModuleName(file_path) \in DOMAIN cache
    THEN \* 25-26: the cached entry point, whatever file it came from
         [returned |-> cache[ModuleName(file_path)], executed |-> FALSE,
          cache |-> cache]
    ELSE IF Sources[file_path] = "function"
    THEN \* 29-40: the file is executed and its run_task cached
         [returned |-> RunTaskOf(file_path), executed |-> TRUE,
          cache |-> [m \in DOMAIN cache \cup {ModuleName(file_path)} |->
                       IF m = ModuleName(file_path)
                       THEN RunTaskOf(file_path) ELSE cache[m]]]
    ELSE \* 31, 35, 42: ImportError, the exception of the file or
         \* AttributeError, all caught on 44-46
         [returned |-> NotLoaded, executed |-> Sources[file_path] /= "absent",
          cache |-> cache]

\* ---- execute_task 103 in a run of a task whose file is file_path:
\* run_function = self.load_task_module(task)
LoadTaskModuleCall(file_path) ==
    /\ Len(loader.calls) < MaxLoads
    /\ LET l == LoadTaskModule(loader.loaded_modules, file_path)
       IN loader' = [loaded_modules |-> l.cache,
                     calls |-> Append(loader.calls,
                                 [file_path |-> file_path,
                                  cached |-> ModuleName(file_path)
                                               \in DOMAIN loader.loaded_modules,
                                  returned |-> l.returned,
                                  executed |-> l.executed])]
    /\ UNCHANGED <<tasks, runs, jobs, sched, now, th, ev, updates, hooks, drv,
                   reg, venv, files, lognames, sizes>>

\* ===================================================================
\* Specifications
\* ===================================================================
Init ==
    /\ tasks \in [Registered -> TaskRows]
    /\ jobs = {Job(t, Trigger(tasks[t])) :
                    t \in {u \in Registered : tasks[u].schedule_type /= MANUAL}}
    /\ runs = <<>>
    /\ sched = "running"
    /\ now = 0
    /\ th = [w \in Threads |-> Idle]
    /\ ev = NoEvent
    /\ updates = 0
    /\ hooks = <<>>
    /\ drv = NoCall
    /\ reg = NoRegistration
    /\ loader = NoLoader
    /\ sizes = NoSizes
    /\ lognames = NoLoggers
    /\ files = NoFiles
    /\ venv = NoValidation

Next ==
    \/ \E w \in Threads, t \in TaskIds : RunTask(w, t)
    \/ \E w \in Threads, t \in TaskIds : ExecuteTaskJob(w, t)
    \/ \E w \in Threads : CreateTaskRun(w)
    \/ \E w \in Threads, ok \in BOOLEAN : CreateTaskLogger(w, ok)
    \/ \E w \in Threads : RunAndFinalize(w)
    \/ \E w \in Threads, n \in Notifications : NotifyAndReturn(w, n)
    \/ \E t \in TaskIds, d \in ScheduleData, valid \in BOOLEAN :
          UpdateTaskSchedule(t, d, valid, TRUE)
    \/ ShutdownBegin
    \/ ShutdownEnd

Spec == Init /\ [][Next]_vars

InitDriver ==
    /\ tasks = [t \in Registered |-> TaskRow(TRUE, None, None, MANUAL)]
    /\ jobs = {}
    /\ runs = <<>>
    /\ sched = "running"
    /\ now = 0
    /\ th = [w \in Threads |-> Idle]
    /\ ev = NoEvent
    /\ updates = 0
    /\ hooks = <<>>
    /\ drv = NoCall
    /\ reg = NoRegistration
    /\ loader = NoLoader
    /\ sizes = NoSizes
    /\ lognames = NoLoggers
    /\ files = NoFiles
    /\ venv = NoValidation

NextDriver ==
    \/ \E b \in ChildBehaviours, n \in SeqsUpTo(Lines, MaxNoise),
          x \in ExitCodes : DriverRunsScript(b, n, x)
    \/ \E out \in SeqsUpTo(Lines, MaxCrashOut), x \in ExitCodes :
          DriverRunsChild(out, x)

SpecDriver == InitDriver /\ [][NextDriver]_vars

InitRegistry ==
    /\ tasks = [t \in {} |-> TaskRow(TRUE, None, None, MANUAL)]
    /\ jobs = {}
    /\ runs = <<>>
    /\ sched = "running"
    /\ now = 0
    /\ th = [w \in Threads |-> Idle]
    /\ ev = NoEvent
    /\ updates = 0
    /\ hooks = <<>>
    /\ drv = NoCall
    /\ reg = NoRegistration
    /\ loader = NoLoader
    /\ sizes = NoSizes
    /\ lognames = NoLoggers
    /\ files = NoFiles
    /\ venv = NoValidation

NextRegistry ==
    \/ \E m \in Modules, s \in RequestTypes, c \in RequestConfigs,
          accepts \in BOOLEAN : RegisterTask(m, s, c, accepts)
    \/ StartupEvent
    \/ \E t \in 1..MaxTaskId, d \in ScheduleRequests, accepts \in BOOLEAN :
          UpdateTaskSchedule(t, d, TRUE, accepts)
    \/ \E t \in 1..MaxTaskId : DeleteTask(t)
    \/ \E t \in 1..MaxTaskId, accepts \in BOOLEAN :
          AddTaskToSchedulerCall(t, accepts)

SpecRegistry == InitRegistry /\ [][NextRegistry]_vars

NextCron ==
    \E x \in SeqsUpTo(CronChars, MaxCronLen), had \in BOOLEAN,
       accepts \in BOOLEAN : RegisterSchedule(x, had, accepts)

SpecCron == InitRegistry /\ [][NextCron]_vars

NextEnv == \E d \in Disks : ValidateEnvironmentCall(d)

SpecEnv == InitDriver /\ [][NextEnv]_vars

InitLogs ==
    /\ tasks = [t \in Registered |-> TaskRow(TRUE, None, None, HOURLY)]
    /\ jobs = {Job(t, Trigger(tasks[t])) : t \in Registered}
    /\ runs = <<>>
    /\ sched = "running"
    /\ now = 0
    /\ th = [w \in Threads |-> Idle]
    /\ ev = NoEvent
    /\ updates = 0
    /\ hooks = <<>>
    /\ drv = NoCall
    /\ reg = NoRegistration
    /\ loader = NoLoader
    /\ sizes = NoSizes
    /\ lognames = NoLoggers
    /\ venv = NoValidation
    /\ files = NoFiles

NextLogs ==
    \/ \E w \in Threads, t \in Registered : RunTask(w, t)
    \/ \E w \in Threads, t \in Registered : ExecuteTaskJob(w, t)
    \/ \E w \in Threads : CreateTaskRun(w)
    \/ \E w \in Threads, ok \in BOOLEAN : CreateTaskLogger(w, ok)
    \/ \E w \in Threads : RunAndFinalize(w)
    \/ \E w \in Threads, n \in Notifications : NotifyAndReturn(w, n)
    \/ Tick
    \/ \E failing \in SUBSET DOMAIN files : CleanupOldLogs(failing)
    \/ ShutdownBegin
    \/ ShutdownEnd

SpecLogs == InitLogs /\ [][NextLogs]_vars

\* SpecPool: two scheduled tasks, their firings and manual runs on the
\* threads of the pool
InitPool ==
    /\ tasks = [t \in TaskIds |-> TaskRow(TRUE, None, None, HOURLY)]
    /\ jobs = {Job(t, Trigger(tasks[t])) : t \in TaskIds}
    /\ runs = <<>>
    /\ sched = "running"
    /\ now = 0
    /\ th = [w \in Threads |-> Idle]
    /\ ev = NoEvent
    /\ updates = 0
    /\ hooks = <<>>
    /\ drv = NoCall
    /\ reg = NoRegistration
    /\ loader = NoLoader
    /\ sizes = NoSizes
    /\ lognames = NoLoggers
    /\ venv = NoValidation
    /\ files = NoFiles

NextPool ==
    \/ \E w \in Threads, t \in TaskIds : RunTask(w, t)
    \/ \E w \in Threads, t \in TaskIds : ExecuteTaskJob(w, t)
    \/ \E w \in Threads : CreateTaskRun(w)
    \/ \E w \in Threads, ok \in BOOLEAN : CreateTaskLogger(w, ok)
    \/ \E w \in Threads : RunAndFinalize(w)
    \/ \E w \in Threads, n \in Notifications : NotifyAndReturn(w, n)

SpecPool == InitPool /\ [][NextPool]_vars

NextLogNames ==
    /\ ~lognames.called
    /\ LET names == SeqsUpTo(NameChars, MaxNameLen)
       IN \E ida \in LoggerIds :
             \E idb \in LoggerIds \ {ida}, namea \in names, nameb \in names,
                tsa \in Timestamps, tsb \in Timestamps :
                  CreateTaskLoggers(ida, namea, tsa, idb, nameb, tsb)

SpecLogNames == InitDriver /\ [][NextLogNames]_vars

\* SpecLogSize: runs of one task and the records they write to their logs
NextLogSize ==
    \/ \E w \in Threads, t \in Registered : RunTask(w, t)
    \/ \E w \in Threads : CreateTaskRun(w)
    \/ \E w \in Threads, ok \in BOOLEAN : CreateTaskLogger(w, ok)
    \/ \E w \in Threads, mb \in RecordMb : LogRecord(w, mb)
    \/ \E w \in Threads : RunAndFinalize(w)
    \/ \E w \in Threads, n \in Notifications : NotifyAndReturn(w, n)

SpecLogSize == InitLogs /\ [][NextLogSize]_vars

\* SpecLoader: in-process runs of the tasks whose files are in FilePaths,
\* in any order, as far as the loader is concerned
NextLoader == \E file_path \in FilePaths : LoadTaskModuleCall(file_path)

SpecLoader == InitDriver /\ [][NextLoader]_vars

\* SpecFiring: firings of two scheduled tasks that are deactivated,
\* reactivated and deleted while a firing is on its way to a pool thread
NextFiring ==
    \/ \E w \in Threads, t \in TaskIds : SubmitJob(w, t)
    \/ \E w \in Threads : StartJob(w)
    \/ \E t \in TaskIds, a \in BOOLEAN :
          UpdateTaskSchedule(t, [is_active |-> a], TRUE, TRUE)
    \/ \E t \in TaskIds : DeleteTask(t)

SpecFiring == InitPool /\ [][NextFiring]_vars

\* ===================================================================
\* Claims
\* ===================================================================
\* the rows of task t that are RUNNING
RunningRows(t) ==
    {r \in RunIds : runs[r].task_id = t /\ runs[r].status = RUNNING}

\* the rows some thread is still inside execute_task for
InFlight == {th[w].run : w \in {v \in Threads : th[v].run /= NoRun}}

\* the driver was invoked for the row in the step just taken
Finished(mode) == ev.op = "finalized" /\ ev.mode = mode

\* C1: single-flight. In every reachable state a task has at most one
\* TaskRun with status RUNNING, whatever the interleaving of manual runs and
\* firings. The check in run_task / _execute_task_job and the insert in
\* execute_task are two steps, so two threads can both pass the check.
C1_AtMostOneRunning ==
    \A t \in TaskIds : Cardinality(RunningRows(t)) <= 1

\* C2: a run requested while a RUNNING row of the task exists is not
\* executed: the manual run is answered "already running", the firing is
\* skipped, no row is inserted and no row changes.
C2_RunningRowRefusesRun ==
    [][\A w \in Threads, t \in TaskIds :
          /\ (RunTask(w, t) /\ RunningRows(t) /= {})
                => /\ ev'.op = "run_task"
                   /\ ev'.note = "400 already running"
                   /\ runs' = runs
                   /\ th'[w].pc = "idle"
          /\ (ExecuteTaskJob(w, t) /\ RunningRows(t) /= {})
                => /\ ev'.op = "job"
                   /\ ev'.note \in {"already running, skipping",
                                    "not active, skipping"}
                   /\ runs' = runs
                   /\ th'[w].pc = "idle"]_vars

C2_Witness ==
    /\ ev.op = "run_task"
    /\ ev.note = "400 already running"
    /\ RunningRows(ev.task) /= {}

\* C3: every call of execute_task that inserted a row returns that row with
\* status SUCCESS or FAILED and raises nothing, and no row stays RUNNING
\* once the call has ended. create_task_logger is called before the try
\* block: when it raises, the exception leaves execute_task and the row
\* stays RUNNING.
C3_ExecuteTaskNeverRaises ==
    /\ ev.op = "execute_task"
          => /\ ev.note = "returned"
             /\ runs[ev.run].status \in {SUCCESS, FAILED}
    /\ \A r \in RunIds : runs[r].status = RUNNING => r \in InFlight

\* C4: terminal states are immutable. A row that is SUCCESS, FAILED or
\* CANCELLED keeps its status, completed timestamp, duration and error
\* message through every later step.
C4_TerminalImmutable ==
    [][\A r \in RunIds :
          runs[r].status \in Terminal
             => /\ r <= Len(runs')
                /\ runs'[r].status = runs[r].status
                /\ runs'[r].completed_at = runs[r].completed_at
                /\ runs'[r].duration_seconds = runs[r].duration_seconds
                /\ runs'[r].error_message = runs[r].error_message]_vars

\* a finalized row whose notification has been handled, after which another
\* run of the task was started and the task's schedule was updated
C4_Witness ==
    /\ ev.op = "update"
    /\ ev.note = "200 updated"
    /\ \E r \in RunIds :
          /\ runs[r].status \in Terminal
          /\ r \notin InFlight
          /\ Len(runs) > r

C6_NoRunningAfterShutdown ==
    sched = "stopped" => \A r \in RunIds : runs[r].status /= RUNNING

\* C7: isolated mode, run_task raises: the run ends FAILED with a non-empty
\* error message. The driver returns the parsed error document as an
\* ordinary result, and execute_task stores SUCCESS for every result.
C7_IsolatedRaiseIsFailed ==
    (Finished("isolated") /\ ev.child = "raises")
        => /\ runs[ev.run].status = FAILED
           /\ runs[ev.run].error_message \notin {None, ""}

\* C8: isolated mode, the child runs into the timeout: the run ends FAILED
\* with a message that names the timeout. The driver catches
\* TimeoutExpired and returns {"status": "error"}; the run is SUCCESS.
C8_IsolatedTimeoutIsFailed ==
    (Finished("isolated") /\ ev.child = "hangs")
        => /\ runs[ev.run].status = FAILED
           /\ runs[ev.run].error_message \notin {None, ""}

\* C9: isolated mode, the child exits non-zero and no sentinel-delimited
\* document could be parsed: the run ends FAILED, never SUCCESS.
C9_NonZeroExitIsFailed ==
    (Finished("isolated") /\ ev.code \notin {0, NoTime} /\ ev.result.json = None)
        => runs[ev.run].status = FAILED

\* C10: when the output of a finished child holds neither the
\* TASK_RESULT_START/END pair nor the TASK_ERROR_START/END pair, the driver
\* returns the best-effort success result with the raw stdout and the
\* child's exit code.
HasLine(out, word) == word \in {out[i] : i \in 1..Len(out)}

NoPair(out) ==
    /\ ~(HasLine(out, RESULT_START) /\ HasLine(out, RESULT_END))
    /\ ~(HasLine(out, ERROR_START) /\ HasLine(out, ERROR_END))

C10_NoSentinelsRawSuccess ==
    (drv.called /\ ~drv.timeout /\ NoPair(drv.stdout))
        => /\ drv.result.status = "success"
           /\ drv.result.output = drv.stdout
           /\ drv.result.return_code = drv.returncode

C10_Witness ==
    /\ drv.called
    /\ NoPair(drv.stdout)
    /\ HasLine(drv.stdout, RESULT_START)
    /\ drv.returncode /= 0
    /\ drv.result.status = "success"

\* C11: result round-trip in isolated mode. When run_task returns a
\* JSON-serializable mapping r the run ends SUCCESS and the result stored
\* with the TaskRun equals r. The driver hands the parsed document back, but
\* TaskRun has no column for it and execute_task only logs it: the row that
\* is committed holds no result at all.
C11_ResultStoredWithRun ==
    (Finished("isolated") /\ ev.child = "returns")
        => /\ runs[ev.run].status = SUCCESS
           /\ "result" \in DOMAIN runs[ev.run]
           /\ runs[ev.run].result = ResultDoc

\* C12: a task whose stored schedule type is manual has no trigger in the
\* scheduler and get_next_run_time returns none for it, after any sequence
\* of registrations, schedule updates and deletions.
C12_ManualHasNoTrigger ==
    \A t \in DOMAIN tasks :
        tasks[t].schedule_type = MANUAL
            => /\ ~HasJob(jobs, t)
               /\ GetNextRunTime(jobs, t) = None

\* a task that had a trigger has just been updated to manual
C12_Witness ==
    /\ ev.op = "update"
    /\ ev.note = "200 updated"
    /\ ev.child = "job removed"
    /\ ev.task \in DOMAIN tasks
    /\ tasks[ev.task].schedule_type = MANUAL

\* C13: for every custom cron expression whose number of blank-separated
\* fields is not 5, add_task_to_scheduler reports failure and the task has
\* no trigger afterwards, whether or not it had one; the scheduler keeps
\* running and the other tasks' triggers are what they were.
FieldCount(s) ==
    Cardinality({i \in 1..Len(s) :
                    s[i] /= " " /\ (i = 1 \/ s[i - 1] = " ")})

C13_BadFieldCountUnschedules ==
    (reg.called /\ FieldCount(reg.expression) /= 5)
        => /\ ~reg.result.ok
           /\ ~HasJob(reg.result.jobs, 1)
           /\ {j \in reg.result.jobs : j.id /= 1}
                 = {j \in reg.before : j.id /= 1}
           /\ sched = "running"

\* a task with a trigger is registered again with a four-field expression
\* that has a doubled blank
C13_Witness ==
    /\ reg.called
    /\ FieldCount(reg.expression) = 4
    /\ Len(reg.expression) = 8
    /\ HasJob(reg.before, 1)
    /\ ~reg.result.ok
    /\ ~HasJob(reg.result.jobs, 1)

\* C14: re-registration replaces and is idempotent. After any sequence of
\* registrations there is at most one trigger task_<id> per task, the
\* trigger is the one of the task's latest successful registration (the
\* one built from the task as it is stored), and registering a task a
\* second time leaves the triggers the first registration left.
C14_RegistrationReplaces ==
    /\ \A j, k \in jobs : j.id = k.id => j = k
    /\ \A j \in jobs :
          /\ j.id \in DOMAIN tasks
          /\ j.trigger = Trigger(tasks[j.id])
    /\ \A t \in DOMAIN tasks, accepts \in BOOLEAN :
          LET once == AddTaskToScheduler(jobs, t, tasks[t], accepts).jobs
          IN AddTaskToScheduler(once, t, tasks[t], accepts).jobs = once

\* a custom task, registered when it was stored, has been registered again
\* while another task holds a trigger too
C14_Witness ==
    /\ ev.op = "add_task_to_scheduler"
    /\ ev.note = "True"
    /\ tasks[ev.task].schedule_type = CUSTOM
    /\ HasJob(jobs, ev.task)
    /\ Cardinality(jobs) = 2

C16_NotifiedExactlyOnce ==
    \A r \in RunIds :
        /\ hooks[r] <= 1
        /\ hooks[r] = 1 => runs[r].status \in {SUCCESS, FAILED}
        /\ r \notin InFlight => hooks[r] = 1

\* C17: a notification that fails (send_task_notification raises or
\* returns False) leaves the TaskRun as it was finalized, and execute_task
\* returns the row without raising.
C17_FailedNotificationChangesNothing ==
    [][\A w \in Threads, n \in {"not sent", "raises"} :
          NotifyAndReturn(w, n)
             => /\ runs' = runs
                /\ runs'[th[w].run].status \in {SUCCESS, FAILED}
                /\ ev'.op = "execute_task"
                /\ ev'.run = th[w].run
                /\ ev'.note = "returned"]_vars

\* a SUCCESS run whose notification raised
C17_Witness ==
    /\ ev.op = "execute_task"
    /\ ev.hook = "raises"
    /\ ev.note = "returned"
    /\ runs[ev.run].status = SUCCESS
    /\ runs[ev.run].error_message = None

\* C18: in every reachable state a TaskRun has a non-empty error message if
\* and only if its status is FAILED. The message is str(e), and an exception
\* raised without arguments has the empty text.
C18_ErrorMessageIffFailed ==
    \A r \in RunIds :
        (runs[r].error_message \notin {None, ""}) <=> (runs[r].status = FAILED)

\* C19: a TaskRun in a terminal status has started and completed set,
\* completed not earlier than started and duration = completed - started; a
\* RUNNING TaskRun has started set and neither completed nor duration.
C19_TimestampsAndDuration ==
    \A r \in RunIds :
        /\ runs[r].status \in Terminal
              => /\ runs[r].started_at /= NoTime
                 /\ runs[r].completed_at /= NoTime
                 /\ runs[r].completed_at >= runs[r].started_at
                 /\ runs[r].duration_seconds
                       = runs[r].completed_at - runs[r].started_at
        /\ runs[r].status = RUNNING
              => /\ runs[r].started_at /= NoTime
                 /\ runs[r].completed_at = NoTime
                 /\ runs[r].duration_seconds = NoTime

\* a FAILED and a SUCCESS run, both finalized, beside each other
C19_Witness ==
    \E r, q \in RunIds :
        /\ runs[r].status = FAILED
        /\ runs[q].status = SUCCESS
        /\ runs[r].duration_seconds = runs[r].completed_at - runs[r].started_at
        /\ runs[q].completed_at > runs[q].started_at

\* C20: every Task record that enters the store, through register_task or
\* through the auto-discovery of startup, refers to a module whose run_task
\* exists and is callable. discover_tasks asks hasattr(module, 'run_task')
\* only, and startup_event stores what it found.
C20_EveryTaskHasCallableEntryPoint ==
    \A t \in DOMAIN tasks : Files[tasks[t].module_name] = "function"

\* what a finished call of validate_environment met and answered
Met == venv.disk
Answer == venv.result

\* C21: for every result of validate_environment, valid is true exactly
\* when python_executable is present, valid = true implies that errors is
\* empty and valid = false that it is not; a path with no interpreter
\* binary gives valid = false, errors and no interpreter.
C21_ValidIffInterpreter ==
    venv.called =>
        /\ Answer.valid <=> Answer.python_executable /= None
        /\ Answer.valid => Answer.errors = <<>>
        /\ ~Answer.valid => Answer.errors /= <<>>
        /\ (BinPython \notin Met.fs /\ ScriptsPython \notin Met.fs)
              => /\ ~Answer.valid
                 /\ Answer.errors /= <<>>
                 /\ Answer.python_executable = None

\* an environment with an activate script and no interpreter binary
C21_Witness ==
    /\ venv.called
    /\ Met.exists /\ Met.fs = {BinActivate} /\ Met.probe = "ok"
    /\ ~Answer.valid
    /\ Answer.errors = <<"Could not find Python executable in environment">>

\* C22: once the interpreter exists and passes the probe, a problem with
\* the supplied manifest (install exits non-zero, install times out, the
\* manifest cannot be installed at all) is not fatal: valid = true with the
\* interpreter, the problem in warnings and never in errors. A manifest path
\* that does not exist is answered with valid = false and an error.
C22_ManifestProblemIsWarning ==
    (/\ venv.called
     /\ GetPythonExecutable(Met.fs) /= None
     /\ Met.probe = "ok"
     /\ \/ Met.requirements = "missing"
        \/ Met.requirements = "present" /\ Met.install /= "ok")
        => /\ Answer.valid
           /\ Answer.python_executable = GetPythonExecutable(Met.fs)
           /\ Answer.errors = <<>>
           /\ Answer.warnings /= <<>>

\* C23: during a run with a valid environment a failed dependency install
\* (non-zero exit, or timeout of the install step in execute_task) never
\* fails the run: the task is still executed. The timeout of the install
\* raises inside the try block, and the run is FAILED without the task
\* having been executed.
C23_FailedInstallRunProceeds ==
    (/\ ev.op = "finalized"
     /\ ev.environment = "valid"
     /\ ev.install \in {"nonzero", "timeout"})
        => /\ ev.mode = "isolated"
           /\ ev.child \in ChildBehaviours
           /\ runs[ev.run].error_message /= InstallTimeout

\* C24: environment_path set and validate_environment says valid = false:
\* the run ends FAILED with a message naming the environment failure, the
\* task's code is executed in neither mode, and the notification hook is
\* still invoked.
C24_InvalidEnvironmentFailsRun ==
    /\ (ev.op = "finalized" /\ ev.environment = "invalid")
          => /\ tasks[ev.task].environment_path /= None
             /\ runs[ev.run].status = FAILED
             /\ runs[ev.run].error_message = EnvironmentInvalid
             /\ ev.mode = None
             /\ ev.child = None
             /\ ev.result = NoResult
    /\ \A r \in RunIds :
          runs[r].error_message = EnvironmentInvalid
             => /\ runs[r].status = FAILED
                /\ r \notin InFlight => hooks[r] = 1

\* the run of a task with an invalid environment has returned
C24_Witness ==
    /\ ev.op = "execute_task"
    /\ ev.note = "returned"
    /\ runs[ev.run].error_message = EnvironmentInvalid
    /\ runs[ev.run].status = FAILED
    /\ hooks[ev.run] = 1

\* C25: the retention sweep never deletes the log file of a TaskRun that is
\* still RUNNING, under any interleaving of sweeps and runs. The sweep
\* compares modification times only: a run that has written nothing for
\* longer than the retention window loses its open file.
C25_SweepSparesRunningLogs ==
    \A r \in RunIds :
        (runs[r].status = RUNNING /\ runs[r].logs_file_path /= NoPath)
            => runs[r].logs_file_path \in DOMAIN files

\* C26: a sweep deletes exactly the log files last modified before the
\* retention window: modified RetentionDays - 1 days ago is kept,
\* RetentionDays + 1 days ago is removed, and a file that fails to be
\* processed does not stop the sweep of the others.
C26_SweepDeletesExactlyOld ==
    [][\A failing \in SUBSET DOMAIN files :
          CleanupOldLogs(failing)
             => \A p \in DOMAIN files :
                   /\ p \in DOMAIN files'
                         <=> (p \in failing \/ now - files[p] <= RetentionDays)
                   /\ now - files[p] = RetentionDays - 1
                         => p \in DOMAIN files'
                   /\ (now - files[p] = RetentionDays + 1 /\ p \notin failing)
                         => p \notin DOMAIN files']_vars

\* a sweep has removed a file of age RetentionDays + 1, kept one of age
\* RetentionDays - 1 and passed over an old one that failed
C26_Witness ==
    /\ ev.op = "cleanup_old_logs"
    /\ \E p \in DOMAIN ev.deleted : now - ev.deleted[p] = RetentionDays + 1
    /\ \E p \in DOMAIN files : now - files[p] = RetentionDays - 1

\* C27: after shutdown() no scheduled firing is dispatched any more, no
\* TaskRun is created by _execute_task_job, and the retention sweep timer is
\* stopped as well. Nothing stops the cleanup thread: it sweeps on.
C27_ShutdownStopsFiringsAndSweeps ==
    [][sched = "stopped"
          => /\ \A w \in Threads, t \in TaskIds : ~ExecuteTaskJob(w, t)
             /\ \A w \in Threads : th[w].kind = "sched" => ~CreateTaskRun(w)
             /\ \A failing \in SUBSET DOMAIN files :
                   ~CleanupOldLogs(failing)]_vars

\* the scheduled firings that are executing
Firing == {w \in Threads : th[w].kind = "sched"}

\* C28: runs of different tasks are independent: a RUNNING TaskRun of task
\* A never causes a run request or a firing of another task B to be
\* rejected or skipped, so runs of different tasks can be RUNNING at the
\* same time.
C28_OtherTasksDoNotBlock ==
    [][\A w \in Threads, t \in TaskIds :
          /\ (RunTask(w, t) /\ t \in DOMAIN tasks /\ RunningRows(t) = {})
                => /\ th'[w] = Calling("manual", t)
                   /\ ev'.note \notin {"400 already running", "404 not found"}
          /\ (/\ ExecuteTaskJob(w, t)
              /\ t \in DOMAIN tasks
              /\ tasks[t].is_active
              /\ RunningRows(t) = {})
                => /\ th'[w] = Calling("sched", t)
                   /\ ev'.note /= "already running, skipping"]_vars

\* two runs of different tasks are RUNNING and in flight at the same time,
\* and the second was admitted while the first was RUNNING
C28_Witness ==
    \E r, q \in InFlight \cap RunIds :
        /\ runs[r].task_id /= runs[q].task_id
        /\ runs[r].status = RUNNING
        /\ runs[q].status = RUNNING

\* C29: the number of scheduled firings executing at the same time never
\* exceeds scheduler.max_workers. The value is not what sizes the pool.
C29_FiringsWithinMaxWorkers ==
    Cardinality(Firing) <= SchedulerMaxWorkers

\* C30: whenever update_task_schedule reports success for a schedule type
\* other than manual, the task has a trigger afterwards (a next run time
\* exists); a schedule that cannot be turned into a trigger is reported as
\* a failure. update_task_schedule does not look at what
\* add_task_to_scheduler returns.
C30_UpdateSuccessMeansTrigger ==
    (/\ ev.op = "update"
     /\ ev.note = "200 updated"
     /\ ev.task \in DOMAIN tasks
     /\ tasks[ev.task].schedule_type /= MANUAL)
        => GetNextRunTime(jobs, ev.task) /= None

\* C31: the log file paths create_task_logger produces for runs of two
\* different task ids are always different, whatever the task names and
\* creation times, and so are the loggers.
C31_DifferentTasksDifferentLogs ==
    (lognames.called /\ lognames.a.task_id /= lognames.b.task_id)
        => /\ lognames.a.path /= lognames.b.path
           /\ lognames.a.logger /= lognames.b.logger

\* task 1 named "2" and task 12 with the empty name, in the same second:
\* the paths differ by where the underscore stands
C31_Witness ==
    /\ lognames.called
    /\ lognames.a.task_id = 1 /\ lognames.a.task_name = <<"2">>
    /\ lognames.b.task_id = 12 /\ lognames.b.task_name = <<>>
    /\ lognames.a.path = <<"task_", "1", "_", "2", "_", "1", "_", "1", ".log">>
    /\ lognames.b.path = <<"task_", "1", "2", "_", "_", "1", "_", "1", ".log">>

\* C32: a record is never appended to a log file that has already grown
\* beyond the configured size threshold: by then the file has been renamed
\* and the stream continues in a fresh file at the original path, which
\* holds no more than the records written since.
C32_StreamContinuesInFreshFile ==
    [][\A p \in DOMAIN sizes' :
          (SizeOf(p) > max_log_size_mb /\ sizes'[p] /= SizeOf(p))
              => sizes'[p] <= max_log_size_mb]_vars

\* C33 as stated: the task is executed in an isolated subprocess exactly
\* when it has an environment path and validation yielded an interpreter,
\* and in-process in every other case, so that every run executes the task
\* in exactly one of the two modes.
C33_ExactlyOneModeExecutes ==
    ev.op = "finalized"
       => /\ ev.mode = "isolated"
                <=> (tasks[ev.task].environment_path /= None
                        /\ ev.environment = "valid")
          /\ ev.mode = "inprocess"
                <=> ~(tasks[ev.task].environment_path /= None
                        /\ ev.environment = "valid")

\* C33: the execution mode is selected only by the resolved environment.
\* A run that executes the task does so in an isolated subprocess exactly
\* when the task has an environment path, validation yielded an
\* interpreter and the setup raised nothing, and in-process exactly when
\* the task has no environment path; a run whose environment setup raises
\* (invalid environment, pip install timing out) executes the task in
\* neither mode. The task is executed at most once in a run: only on a
\* row that is RUNNING, and the same step makes the row terminal or ends
\* the call.
C33_ModeByResolvedEnvironment ==
    [][\A w \in Threads :
          (th[w].pc = "body" /\ th'[w].pc /= "body")
             => /\ runs[th[w].run].status = RUNNING
                /\ \/ runs'[th[w].run].status \in Terminal
                   \/ th'[w] = Idle
                /\ ev'.mode \in {"isolated", "inprocess", None}
                /\ ev'.mode = "isolated"
                      <=> (tasks[th[w].task].environment_path /= None
                              /\ ev'.environment = "valid"
                              /\ ev'.install /= "timeout")
                /\ ev'.mode = "inprocess"
                      <=> tasks[th[w].task].environment_path = None
                /\ ev'.mode = None
                      <=> (tasks[th[w].task].environment_path /= None
                              /\ (ev'.environment = "invalid"
                                    \/ ev'.install = "timeout"))]_vars

\* a task with an environment path whose validation failed has just been
\* finalized without having been executed in either mode
C33_Witness ==
    /\ ev.op = "finalized"
    /\ tasks[ev.task].environment_path /= None
    /\ ev.environment = "invalid"
    /\ ev.mode = None
    /\ runs[ev.run].status = FAILED

\* what str(e) is for each way an in-process execution fails
FailureText(child) ==
    CASE child = "load_failed" -> "Could not load task module"
      [] child = "raises" -> "boom"
      [] child = "raises_empty" -> ""
      [] child = "exits" -> SystemExit

\* C34: in in-process mode a task whose run_task raises, or whose module
\* cannot be loaded or has no run_task, gets a TaskRun with status FAILED
\* whose error message is the text of the failure; the exception does not
\* leave execute_task, which goes on to the notification hook and returns.
\* execute_task catches Exception only: what a task raises outside that
\* class (SystemExit of sys.exit(), KeyboardInterrupt) leaves execute_task
\* and the row stays RUNNING.
C34_InProcessFailureIsFailed ==
    /\ (ev.mode = "inprocess" /\ ev.child \notin {None, "returns"})
          => /\ ev.op = "finalized"
             /\ runs[ev.run].status = FAILED
             /\ runs[ev.run].error_message = FailureText(ev.child)
             /\ \E w \in Threads : th[w].run = ev.run /\ th[w].pc = "notify"
    /\ \A r \in RunIds :
          (/\ runs[r].status = FAILED
           /\ runs[r].error_message \notin {EnvironmentInvalid, InstallTimeout}
           /\ r \notin InFlight)
             => hooks[r] = 1

\* the calls of load_task_module so far
Loads == 1..Len(loader.calls)

\* C35: the loader caches the entry point per module identifier. After the
\* first successful load for a module identifier every later load for that
\* identifier returns the same callable and executes no file; a load that
\* fails (no such file, no run_task in it, the file raises) returns none
\* and stores nothing: the cache holds exactly the identifiers for which a
\* load succeeded, each with the callable that load returned.
C35_LoaderCachesPerModule ==
    /\ \A i \in Loads, j \in Loads :
          (/\ i < j
           /\ ModuleName(loader.calls[i].file_path)
                 = ModuleName(loader.calls[j].file_path)
           /\ loader.calls[i].returned /= NotLoaded)
             => /\ loader.calls[j].returned = loader.calls[i].returned
                /\ ~loader.calls[j].executed
    /\ \A j \in Loads :
          (~loader.calls[j].cached
             /\ Sources[loader.calls[j].file_path] /= "function")
             => loader.calls[j].returned = NotLoaded
    /\ DOMAIN loader.loaded_modules
          = {ModuleName(loader.calls[j].file_path) :
                j \in {k \in Loads : loader.calls[k].returned /= NotLoaded}}
    /\ \A j \in Loads :
          loader.calls[j].returned /= NotLoaded
             => loader.loaded_modules[ModuleName(loader.calls[j].file_path)]
                   = loader.calls[j].returned

\* tasks/job.py was loaded, a second load of it came from the cache, and a
\* load of tasks/helper.py, which has no run_task, returned none and left
\* the cache with the one entry
C35_Witness ==
    /\ Len(loader.calls) = 3
    /\ loader.calls[1].file_path = <<"tasks", "job">>
    /\ loader.calls[1].executed
    /\ loader.calls[2].file_path = <<"tasks", "job">>
    /\ loader.calls[2].returned = RunTaskOf(<<"tasks", "job">>)
    /\ ~loader.calls[2].executed
    /\ loader.calls[3].file_path = <<"tasks", "helper">>
    /\ loader.calls[3].returned = NotLoaded
    /\ DOMAIN loader.loaded_modules = {"job"}

\* C36: an in-process run of a task invokes the run_task defined in the
\* file at the task's own file path, whatever was loaded before. The cache
\* is looked up by module identifier alone, which is the base name of the
\* file: a task whose file has the base name of a file loaded earlier gets
\* that file's run_task.
C36_OwnFileIsInvoked ==
    \A j \in Loads :
        loader.calls[j].returned /= NotLoaded
           => loader.calls[j].returned = RunTaskOf(loader.calls[j].file_path)

\* C37: the payload the parent parses is the one the driver script emitted.
\* Whatever lines the task itself prints before, a task that returns r is
\* parsed as r and a task that raises is parsed as the error document, and
\* when the output holds both a result pair and an error pair the result
\* pair is the one used. The parent looks for the first occurrence of each
\* sentinel word in the whole of stdout, the task's own lines included.
C37_DriverPayloadIsParsed ==
    (drv.called /\ ~drv.timeout)
       => /\ \A n \in SeqsUpTo(Lines, MaxNoise) :
                /\ drv.stdout = DriverScript("returns", n, 0).stdout
                       => drv.result = Parsed(ResultDoc)
                /\ drv.stdout = DriverScript("raises", n, 0).stdout
                       => drv.result = Parsed(ErrorDoc)
          /\ (/\ HasLine(drv.stdout, RESULT_START)
              /\ HasLine(drv.stdout, RESULT_END)
              /\ HasLine(drv.stdout, ERROR_START)
              /\ HasLine(drv.stdout, ERROR_END))
                => drv.result
                     \in {Parsed(d) : d \in JsonDocs}
                          \cup {Dict("error", "Failed to parse result", <<>>,
                                     NoTime, None)}

\* C38: a run request is refused as already running only while an
\* execution of the task is in progress. In every reachable state in which
\* no thread is inside execute_task for a task, no TaskRun of that task is
\* RUNNING. A call of execute_task that an exception left (the log file
\* could not be opened; the task raised SystemExit) has a RUNNING row
\* behind it that nothing ever finalizes.
C38_RunningOnlyWhileExecuting ==
    \A t \in TaskIds :
        (\A w \in Threads : th[w].task /= t) => RunningRows(t) = {}

\* C39: a firing that finds no task with its id in the store, or finds the
\* task inactive, creates no TaskRun, executes no task code, sends no
\* notification and leaves every record, trigger and log file as it was:
\* the job function logs a line and returns.
C39_SkippedFiringChangesNothing ==
    [][\A w \in Threads :
          (/\ th[w].pc = "fired"
           /\ th'[w].pc /= "fired"
           /\ \/ th[w].task \notin DOMAIN tasks
              \/ ~tasks[th[w].task].is_active)
             => /\ th' = [th EXCEPT ![w] = Idle]
                /\ ev'.op = "job"
                /\ ev'.note = IF th[w].task \in DOMAIN tasks
                              THEN "not active, skipping" ELSE "not found"
                /\ runs' = runs
                /\ hooks' = hooks
                /\ tasks' = tasks
                /\ jobs' = jobs
                /\ files' = files]_vars

\* the firing of a task that was deleted while the firing was on its way
\* has just returned: no row, no notification, the other task's trigger
\* still there
C39_Witness ==
    /\ ev.op = "job"
    /\ ev.note = "not found"
    /\ ev.task \notin DOMAIN tasks
    /\ runs = <<>>
    /\ hooks = <<>>
    /\ \A w \in Threads : th[w].task /= ev.task
    /\ \E t \in DOMAIN tasks : HasJob(jobs, t)

====
